---- MODULE Spec2Model ----
(***************************************************************************)
(* Model of the peer-to-peer synchronisation engine of the repository:    *)
(* src-tauri/src/p2p.rs (P2PManager) and the change-log operations of     *)
(* src-tauri/src/database.rs it calls.                                     *)
(*                                                                         *)
(* Texts (pairing codes, certificates, addresses) are sequences of string *)
(* tokens.  An encoding puts a tag in front of the text it encodes and a  *)
(* decoding succeeds only on a text carrying that tag, so a decode of a   *)
(* text that was never encoded fails as it does in the program.           *)
(***************************************************************************)
EXTENDS Integers, Sequences, FiniteSets, TLC

VARIABLES
    now,          \* wall clock, Utc::now(), in seconds
    pin_storage,  \* P2PManager.pin_storage : PIN -> PinData
    peers,        \* P2PManager.peers       : peer id -> PeerInfo
    peer_certs,   \* credential store       : peer id -> certificate text
    last_call,    \* the last pairing API call: its input, its time, its result
    used_pins,    \* history: PINs accepted by process_pairing_code and not generated again since
    issued,       \* history: PIN -> the time generate_pin last produced it
    db,           \* Database: the students and observations tables and sync_state
    db_lock,      \* the holder of the Mutex around the Database, or Unlocked
    server_handle,\* P2PManager.server_handle: "none" or "running" (the accept loop)
    cli,          \* the outbound session: sync_with_peer and its position
    srv,          \* the inbound sessions: connection -> handle_connection and its position
    file_call,    \* the last apply_changeset_file call: the store before, the file, the result
    round,        \* sync_with_peers: the round over the registry and its position
    remote_pin_storage, \* the pin_storage of the remote node
    replica,      \* the last round trip: the source store and the replica it produced
    mdns_daemon,  \* P2PManager.mdns_daemon: "none" or "some" (the handle held)
    daemons,      \* the mDNS daemon threads alive, each with its advertisement and browse task
    peers_lock,   \* the holder of the Mutex around P2PManager.peers, or "free"
    backup,       \* the classes and students tables and the last import_full_backup call
    link          \* the inbound connection that serves the outbound session, or NoLink

pin_vars  == <<now, pin_storage, last_call, used_pins, issued>>
peer_vars == <<peers, peer_certs>>
sync_vars == <<db, db_lock, server_handle, cli, srv>>
ext_vars == <<round, remote_pin_storage, replica, mdns_daemon, daemons>>
ext_vars_but_round == <<remote_pin_storage, replica, mdns_daemon, daemons>>
aux_vars == <<peers_lock, backup, link>>
vars == <<pin_vars, peer_vars, sync_vars, file_call, ext_vars, aux_vars>>

----------------------------------------------------------------------------
(* Bounds *)

\* the clock is read until MaxLate seconds after the lifetime of a PIN
\* generated at time 0 has passed
MaxLate == 1

----------------------------------------------------------------------------
(* Texts *)

Err == <<"Err">>

Digits == {"0", "1", "2", "3", "4", "5", "6", "7", "8", "9"}

\* the device id of this node and of a remote node
device_id == "dev-A"
RemoteDevice == "dev-B"

\* base64::prelude::BASE64_STANDARD.encode
Base64Encode(text) == <<"b64">> \o text

\* base64 ... .decode: the empty text decodes to no bytes; an error unless
\* the text is base64
Base64Decode(text) ==
    IF text = <<>> THEN <<>>
    ELSE IF text[1] = "b64" THEN Tail(text) ELSE Err

\* serde_json::json!({"device_id", "certificate", "timestamp"}).to_string()
PairingJson(dev, cert, ts) == <<"json", dev>> \o cert \o <<ToString(ts)>>

\* serde_json::from_str: an error unless the text is JSON
JsonParse(text) ==
    IF text # Err /\ Len(text) > 0 /\ text[1] = "json" THEN Tail(text) ELSE Err

\* pairing_data["device_id"].as_str(): "null" when the key is missing
JsonDeviceId(obj) == IF Len(obj) >= 1 THEN obj[1] ELSE "null"

\* pairing_data["certificate"].as_str(): <<"null">> when the key is missing
JsonCertificate(obj) ==
    IF Len(obj) >= 3 /\ obj[2] # "null" THEN SubSeq(obj, 2, 3) ELSE <<"null">>

\* the PEM text of a certificate
Pem(cert_name) == <<"pem", cert_name>>

\* CryptoManager::get_or_create_certificate_pair, the certificate half
OwnCertPem == Pem("cert-A")

\* address.parse::<SocketAddr>()
ValidAddresses == {<<"127.0.0.1:8080">>}
AddressInputs == ValidAddresses \cup {<<"not-an-address">>}
ParseSocketAddr(address) == IF address \in ValidAddresses THEN address ELSE Err

----------------------------------------------------------------------------
(* PIN cache *)

\* Duration::minutes(10), in seconds
PinLifetime == 600

\* the instants the clock is read at
Times == {0} \cup ((PinLifetime - 1) .. (PinLifetime + MaxLate))

\* format!("{:06}", gen_range(100000..1000000)): two of the PINs the generator can draw
Pins == { <<"4", "8", "2", "9", "1", "3">>, <<"1", "0", "0", "0", "0", "0">> }

\* pairing_code.len() == 6 && pairing_code.chars().all(|c| c.is_ascii_digit())
IsPin(code) == Len(code) = 6 /\ \A i \in 1..6 : code[i] \in Digits

\* P2PManager::generate_pairing_code
generate_pairing_code(t) == Base64Encode(PairingJson(device_id, OwnCertPem, t))

\* a map without one key
MapRemove(map, key) == [k \in DOMAIN map \ {key} |-> map[k]]

\* a map with one key set
MapInsert(map, key, value) ==
    [k \in DOMAIN map \cup {key} |-> IF k = key THEN value ELSE map[k]]

\* P2PManager::cleanup_expired_pins
cleanup_expired_pins(storage, t) ==
    [p \in {q \in DOMAIN storage : ~(storage[q].expires_at <= t)} |-> storage[p]]

\* the expiry test of process_pairing_code
PinExpired_never(pin_data, t) == FALSE

PinExpired(pin_data, t) == pin_data.expires_at <= t

\* expires_at of a PIN generated at t
ExpiresAt(t) == t + PinLifetime

\* the removal of a used PIN at the end of process_pairing_code
RemoveUsedPin_keep(storage, code) == storage

RemoveUsedPin(storage, code) ==
    IF IsPin(code) THEN MapRemove(storage, code) ELSE storage

----------------------------------------------------------------------------
(* Peer registry and credential store *)

\* CryptoManager::store_peer_certificate
store_peer_certificate(store, peer_id, certificate) ==
    MapInsert(store, peer_id, certificate)

\* P2PManager::add_peer_manually: the registry and the credential store after
\* the call, and whether it succeeded
AddPeerManually_storefirst(peer_id, address, certificate, t) ==
    LET addr == ParseSocketAddr(address) IN
    IF addr = Err
    THEN [ok |-> FALSE, error |-> "Invalid peer address",
          peers |-> peers,
          peer_certs |-> store_peer_certificate(peer_certs, peer_id, certificate)]
    ELSE [ok |-> TRUE, error |-> "",
          peers |-> MapInsert(peers, peer_id,
                       [id |-> peer_id, address |-> addr,
                        last_seen |-> t, certificate |-> certificate]),
          peer_certs |-> store_peer_certificate(peer_certs, peer_id, certificate)]

AddPeerManually(peer_id, address, certificate, t) ==
    LET addr == ParseSocketAddr(address) IN
    IF addr = Err
    THEN [ok |-> FALSE, error |-> "Invalid peer address",
          peers |-> peers, peer_certs |-> peer_certs]
    ELSE [ok |-> TRUE, error |-> "",
          peers |-> MapInsert(peers, peer_id,
                       [id |-> peer_id, address |-> addr,
                        last_seen |-> t, certificate |-> certificate]),
          peer_certs |-> store_peer_certificate(peer_certs, peer_id, certificate)]

----------------------------------------------------------------------------
(* Pairing operations *)

\* the errors a PIN that is unknown or expired is rejected with
InvalidOrExpiredPin == {"Invalid PIN or PIN has expired", "PIN has expired"}

\* the first step of process_pairing_code: the pairing code a 6-digit PIN
\* stands for, or the input itself
ResolvePairingCode(code, t) ==
    IF IsPin(code)
    THEN IF code \notin DOMAIN pin_storage
         THEN [error |-> "Invalid PIN or PIN has expired", code |-> Err]
         ELSE IF PinExpired(pin_storage[code], t)
              THEN [error |-> "PIN has expired", code |-> Err]
              ELSE [error |-> "", code |-> pin_storage[code].pairing_code]
    ELSE [error |-> "", code |-> code]

\* P2PManager::process_pairing_code as a function of its inputs and the
\* state: the result and the state after the call
ProcessPairingCode(code, address, t) ==
    LET unchanged(e) == [result |-> e, pin_storage |-> pin_storage,
                         peers |-> peers, peer_certs |-> peer_certs]
        resolved == ResolvePairingCode(code, t)
        decoded  == Base64Decode(resolved.code)
        obj      == JsonParse(decoded)
    IN
    IF resolved.error # "" THEN unchanged(resolved.error)
    ELSE IF decoded = Err THEN unchanged("Invalid base64")
    ELSE IF obj = Err THEN unchanged("Invalid JSON")
    ELSE IF JsonDeviceId(obj) = "null"
         THEN unchanged("Invalid pairing code: missing device_id")
    ELSE IF JsonCertificate(obj) = <<"null">>
         THEN unchanged("Invalid pairing code: missing certificate")
    ELSE LET added == AddPeerManually(JsonDeviceId(obj), address,
                                      JsonCertificate(obj), t) IN
         IF ~added.ok
         THEN [result |-> added.error, pin_storage |-> pin_storage,
               peers |-> added.peers, peer_certs |-> added.peer_certs]
         ELSE [result |-> "Ok",
               pin_storage |-> RemoveUsedPin(pin_storage, code),
               peers |-> added.peers,
               peer_certs |-> added.peer_certs]

\* the pairing codes entered that are not PINs
RawCodes ==
    { Base64Encode(PairingJson(RemoteDevice, Pem("cert-B"), 0)),
      <<"not-base64!!">>,
      Base64Encode(<<"not json">>),
      Base64Encode(<<"json", "null">>),
      Base64Encode(<<"json", RemoteDevice, "null">>) }

\* a record of a call: reused, cached and issued_at are the PIN's history at
\* the time of the call (issued_at is -1 for a PIN never generated)
Call(op, code, address, result) ==
    [op |-> op, code |-> code, address |-> address, at |-> now, result |-> result,
     reused |-> code \in used_pins,
     cached |-> code \in DOMAIN pin_storage,
     issued_at |-> IF code \in DOMAIN issued THEN issued[code] ELSE -1]

NoCall == [op |-> "none", code |-> <<>>, address |-> <<>>, at |-> 0,
           result |-> "", reused |-> FALSE, cached |-> FALSE, issued_at |-> -1]

\* the clock moves on
Tick ==
    /\ \E t \in Times : t > now /\ now' = t
    /\ UNCHANGED <<pin_storage, last_call, used_pins, issued>>
    /\ UNCHANGED <<peer_vars, sync_vars, file_call, ext_vars, aux_vars>>

\* P2PManager::generate_pin
generate_pin ==
    \E pin \in Pins :
        /\ pin_storage' =
               MapInsert(cleanup_expired_pins(pin_storage, now), pin,
                         [pairing_code |-> generate_pairing_code(now),
                          device_id |-> device_id,
                          expires_at |-> ExpiresAt(now)])
        /\ last_call' = Call("generate_pin", pin, <<>>, "Ok")
        /\ used_pins' = used_pins \ {pin}
        /\ issued' = MapInsert(issued, pin, now)
        /\ UNCHANGED <<now, peer_vars, sync_vars, file_call, ext_vars, aux_vars>>

\* P2PManager::generate_pin on the remote node: the PIN is stored in the
\* pin_storage of that node, with that node's pairing code
remote_generate_pin ==
    \E pin \in Pins :
        /\ remote_pin_storage' =
               MapInsert(cleanup_expired_pins(remote_pin_storage, now), pin,
                         [pairing_code |->
                              Base64Encode(PairingJson(RemoteDevice, Pem("cert-B"), now)),
                          device_id |-> RemoteDevice,
                          expires_at |-> ExpiresAt(now)])
        /\ last_call' = Call("remote_generate_pin", pin, <<>>, "Ok")
        /\ UNCHANGED <<now, pin_storage, used_pins, issued>>
        /\ UNCHANGED <<peer_vars, sync_vars, file_call>>
        /\ UNCHANGED <<round, replica, mdns_daemon, daemons, aux_vars>>

\* P2PManager::clear_pin
clear_pin ==
    /\ pin_storage' = <<>>
    /\ last_call' = Call("clear_pin", <<>>, <<>>, "Ok")
    /\ UNCHANGED <<now, used_pins, issued, peer_vars, sync_vars, file_call, ext_vars, aux_vars>>

\* line 103: the PINs of a cache that have not expired at time t
Unexpired(storage, t) ==
    {pin \in DOMAIN storage : storage[pin].expires_at > t}

\* lines 102-113: what the loop over pin_storage.iter() can return: the
\* first unexpired entry in the iteration order of the HashMap, which is no
\* order of the PINs, or None (the empty text) when no entry is unexpired
CurrentPins(storage, t) ==
    IF Unexpired(storage, t) = {} THEN {<<>>} ELSE Unexpired(storage, t)

\* P2PManager::get_current_pin
get_current_pin ==
    \E pin \in CurrentPins(pin_storage, now) :
        /\ last_call' =
               IF pin = <<>>
               THEN [expires_at |-> 0, expires_in_seconds |-> 0]
                    @@ Call("get_current_pin", pin, <<>>, "None")
               ELSE [expires_at |-> pin_storage[pin].expires_at,
                     expires_in_seconds |-> pin_storage[pin].expires_at - now]
                    @@ Call("get_current_pin", pin, <<>>, "Some")
        /\ UNCHANGED <<now, pin_storage, used_pins, issued>>
        /\ UNCHANGED <<peer_vars, sync_vars, file_call, ext_vars, aux_vars>>

\* P2PManager::process_pairing_code
process_pairing_code ==
    \E code \in Pins \cup RawCodes, address \in AddressInputs :
        LET out == ProcessPairingCode(code, address, now) IN
        /\ pin_storage' = out.pin_storage
        /\ peers' = out.peers
        /\ peer_certs' = out.peer_certs
        /\ last_call' = Call("process_pairing_code", code, address, out.result)
        /\ used_pins' = IF out.result = "Ok" /\ IsPin(code)
                        THEN used_pins \cup {code} ELSE used_pins
        /\ UNCHANGED <<now, issued, sync_vars, file_call, ext_vars, aux_vars>>


----------------------------------------------------------------------------
(* Certificates and the TLS layer *)

\* the certificates of the model: the remote device's self-signed
\* certificate, two further certificates issued under its key (one of them
\* not for the name localhost), and a self-signed certificate of a stranger
Certificates == {"cert-B", "cert-B2", "cert-B3", "cert-M"}

\* the certificate whose key signed a certificate
Issuer(cert) ==
    CASE cert = "cert-B"  -> "cert-B"
      [] cert = "cert-B2" -> "cert-B"
      [] cert = "cert-B3" -> "cert-B"
      [] cert = "cert-M"  -> "cert-M"
      [] OTHER -> cert

\* whether a certificate names the host localhost
ValidForLocalhost(cert) == cert # "cert-B3"

\* the DER bytes of a certificate, and base64 of them
Der(cert) == <<"der", cert>>
Base64Der(cert) == Base64Encode(Der(cert))

\* RootCertStore::add: the trust anchor of a DER certificate, "invalid" for
\* bytes that are no certificate
RootStoreAdd_lenient(bytes) ==
    IF bytes # Err /\ Len(bytes) = 2 /\ bytes[1] = "der" THEN bytes[2] ELSE "empty"

RootStoreAdd(bytes) ==
    IF bytes # Err /\ Len(bytes) = 2 /\ bytes[1] = "der" THEN bytes[2] ELSE "invalid"

\* the verification of the server's certificate by a ClientConfig built
\* with_root_certificates(root_store) for the server name "localhost": the
\* presented certificate must be issued under the key of a trust anchor and
\* be valid for the name
VerifyServerCert(anchor, presented) ==
    /\ Issuer(presented) = anchor
    /\ ValidForLocalhost(presented)

\* whether the ServerConfig asks the client for a certificate:
\* ServerConfig::builder().with_no_client_auth()
ClientAuthRequested_on == TRUE

ClientAuthRequested == FALSE

\* the client certificate a server connection holds after the handshake
\* (conn.peer_certificates()): the one the client offered when the server
\* asked for one, and none otherwise
PeerCertificates(offered) == IF ClientAuthRequested THEN offered ELSE "none"

\* whether the server side of the handshake succeeds for a client offering
\* this certificate ("none": the client offers no certificate)
AcceptHandshakeOk(offered) == ClientAuthRequested => offered # "none"

\* CryptoManager::get_device_id_from_cert
get_device_id_from_cert(cert) ==
    IF Issuer(cert) = "cert-B" THEN RemoteDevice ELSE "dev-M"

----------------------------------------------------------------------------
(* Frames *)

\* the i-th byte (1..8) of u64::to_le_bytes(n)
RECURSIVE LeByte(_, _)
LeByte(n, i) == IF i = 1 THEN n % 256 ELSE LeByte(n \div 256, i - 1)

\* u64::to_le_bytes
ToLeBytes(n) == [i \in 1..8 |-> LeByte(n, i)]

\* u64::from_le_bytes
RECURSIVE FromLeBytesFrom(_, _)
FromLeBytesFrom(bytes, i) ==
    IF i > Len(bytes) THEN 0 ELSE bytes[i] + 256 * FromLeBytesFrom(bytes, i + 1)

FromLeBytes(bytes) == FromLeBytesFrom(bytes, 1)

\* the number of bytes of a length prefix
LenPrefixSize == 8

----------------------------------------------------------------------------
(* The change-log store *)

\* the Mutex<Database>: holders are the outbound session and the connections
Unlocked == -1
ClientHolder == 0

\* the bytes of a changeset: the JSON text of its header and its changes
RECURSIVE EditBytes(_)
EditBytes(edits) ==
    IF edits = <<>> THEN <<>>
    ELSE <<ToString(edits[1][1]), edits[1][2]>> \o EditBytes(Tail(edits))

ChangesetBytes(t, edits) ==
    <<"json", "changeset_v1", ToString(t), "changes">> \o EditBytes(edits)

\* the updates of sync_state a successful session would make
SyncStateTouched(d, peer, t) ==
    [d EXCEPT !.sync_state =
        MapInsert(d.sync_state, peer,
                  [last_seq |-> IF peer \in DOMAIN d.sync_state
                                THEN d.sync_state[peer].last_seq ELSE 0,
                   last_pull |-> IF peer \in DOMAIN d.sync_state
                                 THEN d.sync_state[peer].last_pull ELSE -1,
                   last_push |-> t])]

\* Database::get_pending_changesets: the bytes returned and the store after
get_pending_changesets_touch(d, operation, t) ==
    [bytes |-> ChangesetBytes(t, <<>>), db |-> SyncStateTouched(d, operation, t)]

get_pending_changesets(d, operation, t) ==
    [bytes |-> ChangesetBytes(t, <<>>), db |-> d]

\* Database::apply_changeset: the result and the store after
apply_changeset(d, changeset, operation) ==
    [result |-> "Ok", db |-> d]

----------------------------------------------------------------------------
(* Bounds of the synchronisation model *)

\* the number of inbound connections the accept loop hands out
MaxConns == 1

\* the number of inbound connections at a time where the claim is about
\* concurrent connections
MaxInbound == 2

\* the number of calls of start_discovery_with_port
MaxDaemons == 2

\* the number of edits of a changeset a remote peer sends
MaxEdits == 1

Conns == 1..MaxConns

----------------------------------------------------------------------------
(* What the remote end of a connection does *)

\* the rows a remote peer can report: <<key, text>>
RemoteRows == { <<55, "draft">>, <<2, "O2">> }

\* the changesets a remote peer sends: sequences of at most MaxEdits rows
RemoteEdits ==
    UNION { [1..n -> RemoteRows] : n \in 0..MaxEdits }

\* how much of its frame the remote end delivers before it closes
Deliveries == {"all", "part of the length", "part of the payload", "nothing"}

\* a frame: u64 little-endian length, then the payload
Frame(payload) == ToLeBytes(Len(payload)) \o payload

\* the bytes the remote end delivers
Delivered(edits, delivery) ==
    LET frame == Frame(ChangesetBytes(0, edits)) IN
    CASE delivery = "all" -> frame
      [] delivery = "part of the length" -> SubSeq(frame, 1, 3)
      [] delivery = "part of the payload" -> SubSeq(frame, 1, Len(frame) - 1)
      [] OTHER -> <<>>

\* the certificate texts add_peer_manually is called with
CertificateTexts == { Pem("cert-B"), Base64Der("cert-B") }

\* the instance label a device advertises: "device-" and a prefix of its id
InstanceLabel(dev) == IF dev = RemoteDevice THEN "device-dev-B" ELSE "device-dev-A"

\* the peer ids sync_with_peer is called with
PeerIds == { RemoteDevice, InstanceLabel(RemoteDevice) }

----------------------------------------------------------------------------
(* The outbound session: P2PManager::sync_with_peer *)

\* peer_id is also the id of the PeerInfo the session holds a clone of: every
\* insert into the registry stores a PeerInfo under its own id.  io is the
\* history of the reads and writes of the session, remote_edits the rows the
\* remote end put into its frame, sync_before the sync_state table at the
\* start of the session
IdleClient ==
    [pc |-> "idle", peer_id |-> "", anchor |-> "none", presented |-> "none",
     our_changesets |-> <<>>, inbound |-> <<>>, remote_edits |-> <<>>,
     len |-> 0, peer_changesets |-> <<>>, io |-> <<>>, result |-> "",
     sync_before |-> <<>>]

\* an inbound connection nobody has connected to
FreeConn ==
    [pc |-> "free", offered |-> "none", peer_cert |-> "none", peer_id |-> "",
     our_changesets |-> <<>>, inbound |-> <<>>, remote_edits |-> <<>>,
     len |-> 0, peer_changesets |-> <<>>, io |-> <<>>, result |-> "",
     sync_before |-> <<>>]

\* link, when it is not NoLink, is the inbound session of a node running this
\* program that serves the connection of the outbound session: the variables
\* of the inbound side then stand for that node's, and what one end of the
\* connection reads is what the other end has written
NoLink == 0

\* the task of a connection has returned and dropped the stream it owns
\* (lines 228-232), or has never had a connection
ResponderClosed_leak(session) == FALSE

ResponderClosed(session) == session.pc \in {"done", "free"}

\* the bytes a session has written to its stream, in order
RECURSIVE Written(_)
Written(io) ==
    IF io = <<>> THEN <<>>
    ELSE (IF Head(io)[1] = "write" THEN Head(io)[2] ELSE <<>>) \o Written(Tail(io))

\* the certificates the remote end of the outbound session can present: any
\* for a remote end that is not modelled, the certificate of the remote
\* device for a linked one
ServedCertificates == IF link = NoLink THEN Certificates ELSE {"cert-B"}

Finished(session, result) == [session EXCEPT !.pc = "done", !.result = result]

\* the statement that follows a statement of sync_with_peer
ClientAfter_readfirst(pc) ==
    CASE pc = "connect"       -> "handshake"
      [] pc = "handshake"     -> "read_len"
      [] pc = "read_len"      -> "read_payload"
      [] pc = "read_payload"  -> "lock_apply"
      [] pc = "lock_apply"    -> "apply"
      [] pc = "apply"         -> "lock_pending"
      [] pc = "lock_pending"  -> "pending"
      [] pc = "pending"       -> "write_len"
      [] pc = "write_len"     -> "write_payload"
      [] pc = "write_payload" -> "done"
      [] OTHER -> "done"

ClientAfter(pc) ==
    CASE pc = "connect"       -> "handshake"
      [] pc = "handshake"     -> "lock_pending"
      [] pc = "lock_pending"  -> "pending"
      [] pc = "pending"       -> "write_len"
      [] pc = "write_len"     -> "write_payload"
      [] pc = "write_payload" -> "read_len"
      [] pc = "read_len"      -> "read_payload"
      [] pc = "read_payload"  -> "lock_apply"
      [] pc = "lock_apply"    -> "apply"
      [] pc = "apply"         -> "done"
      [] OTHER -> "done"

\* a session moved to the statement after the current one
Advance(session) ==
    LET next == ClientAfter(session.pc) IN
    IF next = "done" THEN Finished(session, "Ok")
    ELSE [session EXCEPT !.pc = next]

\* lines 288-298: the lookup of the peer and the root store of its
\* certificate; the session after them
StartSession(peer_id) ==
    LET session == [IdleClient EXCEPT !.peer_id = peer_id,
                                      !.sync_before = db.sync_state] IN
    IF peer_id \notin DOMAIN peers
    THEN Finished(session, "Ok")
    ELSE LET der == Base64Decode(peers[peer_id].certificate)
             anchor == RootStoreAdd(der)
         IN
         IF der = Err THEN Finished(session, "Invalid base64")
         ELSE IF anchor = "invalid"
              THEN Finished(session, "Invalid root certificate")
              ELSE [session EXCEPT !.pc = "connect", !.anchor = anchor]

\* P2PManager::sync_with_peer takes the registry lock for the lookup of its
\* peer (lines 288-291): in a call of its own, or in the call the loop of
\* sync_with_peers has made
sync_with_peer_start ==
    /\ peers_lock = "free"
    /\ CASE cli.pc = "idle" /\ round.pc # "running" ->
              \E peer_id \in PeerIds : cli' = StartSession(peer_id)
         [] cli.pc = "lookup" -> cli' = StartSession(cli.peer_id)
         [] OTHER -> FALSE
    /\ UNCHANGED <<pin_vars, peer_vars, db, db_lock, server_handle, srv, file_call, ext_vars, aux_vars>>

\* lines 305-306: TcpStream::connect
sync_with_peer_connect ==
    /\ cli.pc = "connect"
    /\ \E connected \in BOOLEAN :
        /\ (link # NoLink /\ connected)
               => (server_handle = "running" /\ srv[link].pc = "free")
        /\ cli' = IF connected THEN [cli EXCEPT !.pc = ClientAfter("connect")]
                  ELSE Finished(cli, "Failed to connect to peer")
        \* a linked connection is accepted by the listener it reaches; the
        \* client configuration offers no certificate (line 302)
        /\ srv' = IF link # NoLink /\ connected
                  THEN [srv EXCEPT ![link] = [FreeConn EXCEPT !.pc = "handshake"]]
                  ELSE srv
    /\ UNCHANGED <<pin_vars, peer_vars, db, db_lock, server_handle, file_call, ext_vars, aux_vars>>

\* lines 311-312: connector.connect, the TLS handshake
sync_with_peer_handshake ==
    /\ cli.pc = "handshake"
    /\ \E presented \in ServedCertificates :
        cli' = IF VerifyServerCert(cli.anchor, presented)
               THEN Advance([cli EXCEPT !.presented = presented])
               ELSE Finished([cli EXCEPT !.presented = presented],
                             "TLS handshake failed")
    /\ UNCHANGED <<pin_vars, peer_vars, db, db_lock, server_handle, srv, file_call, ext_vars, aux_vars>>

\* the store operation is run without the lock
sync_with_peer_lock_skip ==
    /\ cli.pc \in {"lock_pending", "lock_apply"}
    /\ cli' = Advance(cli)
    /\ UNCHANGED <<pin_vars, peer_vars, db, db_lock, server_handle, srv, file_call, ext_vars, aux_vars>>

\* lines 318 and 333: self.db.lock().await
sync_with_peer_lock ==
    /\ cli.pc \in {"lock_pending", "lock_apply"}
    /\ db_lock = Unlocked
    /\ db_lock' = ClientHolder
    /\ cli' = Advance(cli)
    /\ UNCHANGED <<pin_vars, peer_vars, db, server_handle, srv, file_call, ext_vars, aux_vars>>

\* the guard of the lock is kept after the statement
sync_with_peer_pending_hold ==
    /\ cli.pc = "pending"
    /\ LET out == get_pending_changesets(db, cli.peer_id, now) IN
        /\ db' = out.db
        /\ cli' = Advance([cli EXCEPT !.our_changesets = out.bytes])
    /\ UNCHANGED <<pin_vars, peer_vars, db_lock, server_handle, srv, file_call, ext_vars, aux_vars>>

\* line 318: get_pending_changesets under the lock; the guard is a temporary
\* of the statement and is dropped at its end
sync_with_peer_pending ==
    /\ cli.pc = "pending"
    /\ LET out == get_pending_changesets(db, cli.peer_id, now) IN
        /\ db' = out.db
        /\ cli' = Advance([cli EXCEPT !.our_changesets = out.bytes])
    /\ db_lock' = Unlocked
    /\ UNCHANGED <<pin_vars, peer_vars, server_handle, srv, file_call, ext_vars, aux_vars>>

\* lines 319-321: the length prefix and the payload are written
sync_with_peer_write ==
    /\ cli.pc \in {"write_len", "write_payload"}
    /\ \E written \in BOOLEAN :
        LET bytes == IF cli.pc = "write_len"
                     THEN ToLeBytes(Len(cli.our_changesets))
                     ELSE cli.our_changesets
        IN
        cli' = IF written
               THEN Advance([cli EXCEPT !.io = Append(@, <<"write", bytes>>)])
               ELSE Finished(cli, "write failed")
    /\ UNCHANGED <<pin_vars, peer_vars, db, db_lock, server_handle, srv, file_call, ext_vars, aux_vars>>

\* lines 325-327: read_exact of the length prefix
sync_with_peer_read_len ==
    /\ cli.pc = "read_len"
    /\ \E edits \in RemoteEdits, delivery \in Deliveries :
        LET stream == IF link = NoLink THEN Delivered(edits, delivery)
                      ELSE Written(srv[link].io) IN
        \* a linked read returns when the other end has written its frame
        \* and returned, or has closed the stream without
        /\ link # NoLink
               => /\ ResponderClosed(srv[link])
                  /\ edits = <<>> /\ delivery = "all"
        /\ cli' = IF Len(stream) < LenPrefixSize
               THEN Finished([cli EXCEPT !.remote_edits = edits], "early eof")
               ELSE LET len_bytes == SubSeq(stream, 1, LenPrefixSize) IN
                    Advance([cli EXCEPT
                        !.remote_edits = edits,
                        !.inbound = SubSeq(stream, LenPrefixSize + 1, Len(stream)),
                        !.len = FromLeBytes(len_bytes),
                        !.io = Append(@, <<"read", len_bytes>>)])
    /\ UNCHANGED <<pin_vars, peer_vars, db, db_lock, server_handle, srv, file_call, ext_vars, aux_vars>>

\* the payload is read with read, which returns the bytes that have arrived
sync_with_peer_read_payload_short ==
    /\ cli.pc = "read_payload"
    /\ LET n == IF Len(cli.inbound) < cli.len THEN Len(cli.inbound) ELSE cli.len
           bytes == SubSeq(cli.inbound, 1, n) IN
       cli' = Advance([cli EXCEPT
                  !.peer_changesets = bytes,
                  !.inbound = SubSeq(cli.inbound, n + 1, Len(cli.inbound)),
                  !.io = Append(@, <<"read", bytes>>)])
    /\ UNCHANGED <<pin_vars, peer_vars, db, db_lock, server_handle, srv, file_call, ext_vars, aux_vars>>

\* lines 328-329: read_exact of the announced number of bytes
sync_with_peer_read_payload ==
    /\ cli.pc = "read_payload"
    /\ cli' = IF Len(cli.inbound) < cli.len
              THEN Finished(cli, "early eof")
              ELSE LET bytes == SubSeq(cli.inbound, 1, cli.len) IN
                   Advance([cli EXCEPT
                       !.peer_changesets = bytes,
                       !.inbound = SubSeq(cli.inbound, cli.len + 1, Len(cli.inbound)),
                       !.io = Append(@, <<"read", bytes>>)])
    /\ UNCHANGED <<pin_vars, peer_vars, db, db_lock, server_handle, srv, file_call, ext_vars, aux_vars>>

\* line 333: apply_changeset under the lock
sync_with_peer_apply ==
    /\ cli.pc = "apply"
    /\ LET out == apply_changeset(db, cli.peer_changesets, cli.peer_id) IN
        /\ db' = out.db
        /\ cli' = IF out.result = "Ok" THEN Advance(cli)
                  ELSE Finished(cli, out.result)
    /\ db_lock' = Unlocked
    /\ UNCHANGED <<pin_vars, peer_vars, server_handle, srv, file_call, ext_vars, aux_vars>>

\* sync_with_peer has returned
sync_with_peer_return ==
    /\ cli.pc = "done"
    /\ round.pc # "running"
    /\ cli' = IdleClient
    /\ UNCHANGED <<pin_vars, peer_vars, db, db_lock, server_handle, srv, file_call, ext_vars, aux_vars>>

----------------------------------------------------------------------------
(* The inbound sessions: P2PManager::start_server and handle_connection *)

\* the client certificates a connecting client offers
OfferedCerts == {"none", "cert-B", "cert-M"}

\* P2PManager::start_server: the listener is bound and the accept loop
\* spawned; the bind fails while an accept loop holds the port
StartServer(handle) ==
    IF handle = "running"
    THEN [result |-> "Failed to bind server socket", server_handle |-> handle]
    ELSE [result |-> "Ok", server_handle |-> "running"]

start_server ==
    /\ server_handle' = StartServer(server_handle).server_handle
    /\ UNCHANGED <<pin_vars, peer_vars, db, db_lock, cli, srv, file_call, ext_vars, aux_vars>>

\* P2PManager::start_discovery_with_port: a new daemon is created, the
\* service registered and a browse task spawned; the handle of the new daemon
\* replaces the one held.  Nothing shuts a daemon down: a daemon whose handle
\* is dropped keeps its advertisement and its browse task
start_discovery ==
    /\ daemons < MaxDaemons
    /\ daemons' = daemons + 1
    /\ mdns_daemon' = "some"
    /\ UNCHANGED <<pin_vars, peer_vars, sync_vars, file_call>>
    /\ UNCHANGED <<round, remote_pin_storage, replica, aux_vars>>

\* P2PManager::stop_discovery: the accept loop is aborted and the handle of
\* the daemon dropped
stop_discovery_cancel ==
    /\ server_handle' = "none"
    /\ mdns_daemon' = "none"
    /\ srv' = [c \in DOMAIN srv |-> FreeConn]
    /\ UNCHANGED <<pin_vars, peer_vars, db, db_lock, cli, file_call>>
    /\ UNCHANGED <<round, remote_pin_storage, replica, daemons, aux_vars>>

stop_discovery ==
    /\ server_handle' = "none"
    /\ mdns_daemon' = "none"
    /\ UNCHANGED <<pin_vars, peer_vars, db, db_lock, cli, srv, file_call>>
    /\ UNCHANGED <<round, remote_pin_storage, replica, daemons, aux_vars>>

\* lines 223-232: listener.accept() and the task spawned for the connection
accept ==
    /\ server_handle = "running"
    /\ \E c \in DOMAIN srv, offered \in OfferedCerts :
        /\ srv[c].pc = "free"
        /\ srv' = [srv EXCEPT ![c] = [FreeConn EXCEPT !.pc = "handshake",
                                                     !.offered = offered]]
    /\ UNCHANGED <<pin_vars, peer_vars, db, db_lock, server_handle, cli, file_call, ext_vars, aux_vars>>

\* the statement that follows a statement of handle_connection
ServerAfter(pc) ==
    CASE pc = "handshake"     -> "peer_cert"
      [] pc = "peer_cert"     -> "read_len"
      [] pc = "read_len"      -> "read_payload"
      [] pc = "read_payload"  -> "lock_apply"
      [] pc = "lock_apply"    -> "apply"
      [] pc = "apply"         -> "lock_pending"
      [] pc = "lock_pending"  -> "pending"
      [] pc = "pending"       -> "write_len"
      [] pc = "write_len"     -> "write_payload"
      [] pc = "write_payload" -> "done"
      [] OTHER -> "done"

ServerAdvance(session) ==
    LET next == ServerAfter(session.pc) IN
    IF next = "done" THEN Finished(session, "Ok")
    ELSE [session EXCEPT !.pc = next]

\* lines 246-247: acceptor.accept, the TLS handshake
hc_handshake(c, completed) ==
    /\ srv' = [srv EXCEPT ![c] =
                 IF completed /\ AcceptHandshakeOk(srv[c].offered)
                 THEN ServerAdvance([srv[c] EXCEPT
                          !.peer_cert = PeerCertificates(srv[c].offered)])
                 ELSE Finished(srv[c], "TLS handshake failed")]
    /\ UNCHANGED <<peer_certs, db, db_lock>>

\* lines 252-260: the peer certificate, its device id, and its storage
hc_peer_cert(c) ==
    IF srv[c].peer_cert = "none"
    THEN /\ srv' = [srv EXCEPT ![c] =
                      Finished(srv[c], "Failed to get peer certificate")]
         /\ UNCHANGED <<peer_certs, db, db_lock>>
    ELSE LET peer_id == get_device_id_from_cert(srv[c].peer_cert) IN
         /\ peer_certs' = store_peer_certificate(peer_certs, peer_id,
                                                 Base64Der(srv[c].peer_cert))
         /\ srv' = [srv EXCEPT ![c] = ServerAdvance([srv[c] EXCEPT !.peer_id = peer_id])]
         /\ UNCHANGED <<db, db_lock>>

\* lines 266-268: read_exact of the length prefix
hc_read_len(c, edits, delivery) ==
    LET stream == IF c = link THEN Written(cli.io) ELSE Delivered(edits, delivery) IN
    /\ srv' = [srv EXCEPT ![c] =
                 IF Len(stream) < LenPrefixSize
                 THEN Finished([srv[c] EXCEPT !.remote_edits = edits], "early eof")
                 ELSE LET len_bytes == SubSeq(stream, 1, LenPrefixSize) IN
                      ServerAdvance([srv[c] EXCEPT
                          !.remote_edits = edits,
                          !.inbound = SubSeq(stream, LenPrefixSize + 1, Len(stream)),
                          !.len = FromLeBytes(len_bytes),
                          !.io = Append(@, <<"read", len_bytes>>)])]
    /\ UNCHANGED <<peer_certs, db, db_lock>>

\* lines 269-270: read_exact of the announced number of bytes
hc_read_payload(c) ==
    /\ srv' = [srv EXCEPT ![c] =
                 IF Len(srv[c].inbound) < srv[c].len
                 THEN Finished(srv[c], "early eof")
                 ELSE LET bytes == SubSeq(srv[c].inbound, 1, srv[c].len) IN
                      ServerAdvance([srv[c] EXCEPT
                          !.peer_changesets = bytes,
                          !.inbound = SubSeq(srv[c].inbound, srv[c].len + 1,
                                             Len(srv[c].inbound)),
                          !.io = Append(@, <<"read", bytes>>)])]
    /\ UNCHANGED <<peer_certs, db, db_lock>>

\* lines 274 and 278: db.lock().await
hc_lock(c) ==
    /\ db_lock = Unlocked
    /\ db_lock' = c
    /\ srv' = [srv EXCEPT ![c] = ServerAdvance(srv[c])]
    /\ UNCHANGED <<peer_certs, db>>

\* line 274: apply_changeset under the lock
hc_apply(c) ==
    LET out == apply_changeset(db, srv[c].peer_changesets, srv[c].peer_id) IN
    /\ db' = out.db
    /\ srv' = [srv EXCEPT ![c] = IF out.result = "Ok" THEN ServerAdvance(srv[c])
                                 ELSE Finished(srv[c], out.result)]
    /\ db_lock' = Unlocked
    /\ UNCHANGED peer_certs

\* line 278: get_pending_changesets under the lock
hc_pending(c) ==
    LET out == get_pending_changesets(db, srv[c].peer_id, now) IN
    /\ db' = out.db
    /\ srv' = [srv EXCEPT ![c] = ServerAdvance([srv[c] EXCEPT
                                     !.our_changesets = out.bytes])]
    /\ db_lock' = Unlocked
    /\ UNCHANGED peer_certs

\* lines 279-281: the length prefix and the payload are written
hc_write(c, written) ==
    LET bytes == IF srv[c].pc = "write_len"
                 THEN ToLeBytes(Len(srv[c].our_changesets))
                 ELSE srv[c].our_changesets
    IN
    /\ srv' = [srv EXCEPT ![c] =
                 IF written
                 THEN ServerAdvance([srv[c] EXCEPT !.io = Append(@, <<"write", bytes>>)])
                 ELSE Finished(srv[c], "write failed")]
    /\ UNCHANGED <<peer_certs, db, db_lock>>

\* lines 228-232: the task of a connection: an error of handle_connection is
\* logged in that task; the accept loop is another task
ConnectionTaskStep_break(handle, session) ==
    IF session.pc = "done" /\ session.result # "Ok" THEN "none" ELSE handle

ConnectionTaskStep(handle, session) == handle

\* what the other end of a linked connection allows the next statement: the
\* handshake completes when the client's has, and fails when the client's
\* has failed; a read returns when the client has written its frame or has
\* returned
LinkedStep(c, flag, edits, delivery) ==
    CASE srv[c].pc = "handshake" ->
             /\ cli.pc # "handshake"
             /\ cli.pc \notin {"idle", "lookup", "connect"}
                    => flag = (cli.presented # "none" /\ cli.result # "TLS handshake failed")
      [] srv[c].pc = "read_len" ->
             /\ cli.pc \notin {"lock_pending", "pending", "write_len", "write_payload"}
             /\ edits = <<>> /\ delivery = "all"
      [] OTHER -> TRUE

\* P2PManager::handle_connection: the next statement of the task of one
\* accepted connection
handle_connection ==
    \E c \in DOMAIN srv, flag \in BOOLEAN, edits \in RemoteEdits, delivery \in Deliveries :
        /\ srv[c].pc \notin {"free", "done"}
        /\ c = link => LinkedStep(c, flag, edits, delivery)
        /\ CASE srv[c].pc = "handshake"    -> hc_handshake(c, flag)
             [] srv[c].pc = "peer_cert"    -> hc_peer_cert(c)
             [] srv[c].pc = "read_len"     -> hc_read_len(c, edits, delivery)
             [] srv[c].pc = "read_payload" -> hc_read_payload(c)
             [] srv[c].pc \in {"lock_apply", "lock_pending"} -> hc_lock(c)
             [] srv[c].pc = "apply"        -> hc_apply(c)
             [] srv[c].pc = "pending"      -> hc_pending(c)
             [] OTHER                      -> hc_write(c, flag)
        /\ server_handle' = ConnectionTaskStep(server_handle, srv'[c])
        /\ UNCHANGED <<pin_vars, peers, cli, file_call, ext_vars, aux_vars>>

\* the task of a connection has ended: the connection is closed
connection_closed ==
    \E c \in DOMAIN srv :
        /\ srv[c].pc = "done"
        /\ c = link => cli.pc \in {"idle", "done"}
        /\ srv' = [srv EXCEPT ![c] = FreeConn]
        /\ UNCHANGED <<pin_vars, peer_vars, db, db_lock, server_handle, cli, file_call, ext_vars, aux_vars>>

----------------------------------------------------------------------------
(* The registry: add_peer_manually and the discovery task *)

\* the peer ids add_peer_manually is called with: the id of the remote
\* device or, with discovery running, a name the discovery has listed
ManualPeerIds ==
    {RemoteDevice} \cup
    (IF mdns_daemon = "some"
     THEN {k \in DOMAIN peers : peers[k].certificate = <<>>}
     ELSE {})

\* P2PManager::add_peer_manually, called with a peer id, an address and a
\* certificate text
add_peer_manually ==
    \E peer_id \in ManualPeerIds, address \in AddressInputs,
       certificate \in CertificateTexts :
        LET out == AddPeerManually(peer_id, address, certificate, now) IN
        /\ round.pc # "running"
        /\ peers' = out.peers
        /\ peer_certs' = out.peer_certs
        /\ UNCHANGED <<pin_vars, sync_vars, file_call, ext_vars, aux_vars>>

\* Uuid::new_v4().to_string(): the characters of a device id, with the
\* first hyphen of a UUID after its eighth character
DeviceIdText(dev) ==
    IF dev = RemoteDevice
    THEN <<"9", "b", "2", "e", "7", "7", "0", "c", "-", "4">>
    ELSE <<"3", "f", "a", "1", "0", "d", "5", "6", "-", "8">>

\* &self.device_id[..8]
InstancePrefixLen == 8

\* line 145: the instance name of the advertisement
InstanceName(dev) ==
    <<"device-">> \o SubSeq(DeviceIdText(dev), 1, InstancePrefixLen)

\* info.get_fullname(): the instance name and the service type
FullName(dev) ==
    InstanceName(dev) \o <<".", "_schuelerbeobachtung", ".", "_tcp", ".", "local", ".">>

\* str::contains
Contains(text, pattern) ==
    \E i \in 1..(Len(text) - Len(pattern) + 1) :
        SubSeq(text, i, i + Len(pattern) - 1) = pattern

\* split('.').next(): the text before the first dot
RECURSIVE SplitFirst(_)
SplitFirst(text) ==
    IF text = <<>> \/ Head(text) = "."
    THEN <<>>
    ELSE <<Head(text)>> \o SplitFirst(Tail(text))

\* the registry key that stands for an instance name
LabelOf(name) ==
    IF name = InstanceName(RemoteDevice)
    THEN InstanceLabel(RemoteDevice)
    ELSE InstanceLabel(device_id)

\* lines 164-186: the browse task handles a ServiceResolved event for the
\* advertisement of a device
ServiceResolved(registry, advertiser, t) ==
    LET fullname == FullName(advertiser)
        peer_id_from_service == LabelOf(SplitFirst(fullname)) IN
    IF Contains(fullname, DeviceIdText(device_id))
    THEN registry
    ELSE MapInsert(registry, peer_id_from_service,
             [id |-> peer_id_from_service, address |-> <<"127.0.0.1:8080">>,
              last_seen |-> t, certificate |-> <<>>])

\* a ServiceResolved event for the advertisement of the remote device
service_resolved ==
    /\ peers_lock = "free"
    /\ peers' = ServiceResolved(peers, RemoteDevice, now)
    /\ UNCHANGED <<pin_vars, peer_certs, sync_vars, file_call, ext_vars, aux_vars>>

\* a ServiceResolved event of a running daemon: for the advertisement of the
\* remote device or for the one this node registered itself
browse_event ==
    /\ daemons > 0
    /\ peers_lock = "free"
    /\ \E advertiser \in {device_id, RemoteDevice} :
           peers' = ServiceResolved(peers, advertiser, now)
    /\ UNCHANGED <<pin_vars, peer_certs, sync_vars, file_call, ext_vars, aux_vars>>

----------------------------------------------------------------------------
(* Changeset files: Database::apply_changeset_file *)

\* the number of observations of a changeset file, and the largest id in one
MaxFileObs == 2
MaxObsId == 3

\* the student every store of the model holds, and a student no store holds
KnownStudent == 10
UnknownStudent == 99

\* an entry of the "observations" array: valid when it deserialises as an
\* Observation
ObsEntries ==
    [valid : {TRUE}, id : 1..MaxObsId,
     student_id : {KnownStudent, UnknownStudent}, text : {"t"}]
    \cup {[valid |-> FALSE, id |-> 0, student_id |-> 0, text |-> ""]}

\* a changeset file: what of its envelope is in order, and its observations
WellFormed ==
    [utf8 |-> TRUE, json |-> TRUE, has_checksum |-> TRUE, has_data |-> TRUE,
     checksum_matches |-> TRUE, has_observations |-> TRUE, observations |-> <<>>]

ChangesetFiles ==
    { [WellFormed EXCEPT !.observations = obs] :
          obs \in UNION { [1..n -> ObsEntries] : n \in 0..MaxFileObs } }
    \cup { [WellFormed EXCEPT !.utf8 = FALSE],
           [WellFormed EXCEPT !.json = FALSE],
           [WellFormed EXCEPT !.has_checksum = FALSE],
           [WellFormed EXCEPT !.has_data = FALSE],
           [WellFormed EXCEPT !.checksum_matches = FALSE],
           [WellFormed EXCEPT !.has_observations = FALSE] }

\* lines 568-595: the checks of the envelope, in the order of the code
EnvelopeError(file) ==
    IF ~file.utf8 THEN "Invalid changeset file encoding"
    ELSE IF ~file.json THEN "Invalid changeset file format"
    ELSE IF ~file.has_checksum THEN "Missing checksum in changeset file"
    ELSE IF ~file.has_data THEN "Missing data section in changeset file"
    ELSE IF ~file.checksum_matches THEN "Checksum verification failed"
    ELSE IF ~file.has_observations THEN "Invalid observations data in changeset"
    ELSE ""

\* INSERT INTO observations: the foreign key on students is enforced
InsertObservation(d, entry) ==
    IF entry.student_id \notin d.students
    THEN [result |-> "FOREIGN KEY constraint failed", db |-> d]
    ELSE [result |-> "Ok",
          db |-> [d EXCEPT !.observations =
                     MapInsert(@, entry.id, [student_id |-> entry.student_id,
                                             text |-> entry.text])]]

\* lines 597-631: the loop over the observations; every INSERT is committed
\* on its own, and the first error ends the call
RECURSIVE ImportObservations(_, _, _)
ImportObservations(d, entries, imported_count) ==
    IF entries = <<>>
    THEN [result |-> "Ok", imported |-> imported_count, db |-> d]
    ELSE LET entry == Head(entries) IN
         IF ~entry.valid \/ entry.id \in DOMAIN d.observations
         THEN ImportObservations(d, Tail(entries), imported_count)
         ELSE LET inserted == InsertObservation(d, entry) IN
              IF inserted.result # "Ok"
              THEN [result |-> inserted.result, imported |-> imported_count,
                    db |-> inserted.db]
              ELSE ImportObservations(inserted.db, Tail(entries),
                                      imported_count + 1)

\* Database::apply_changeset_file: the result and the store after
ApplyChangesetFile(d, file) ==
    IF EnvelopeError(file) # ""
    THEN [result |-> EnvelopeError(file), imported |-> 0, db |-> d]
    ELSE ImportObservations(d, file.observations, 0)

NoFileCall == [called |-> FALSE, before |-> <<>>, file |-> WellFormed,
               result |-> "", imported |-> 0]

apply_changeset_file ==
    \E file \in ChangesetFiles :
        LET out == ApplyChangesetFile(db, file) IN
        /\ db' = out.db
        /\ file_call' = [called |-> TRUE, before |-> db, file |-> file,
                         result |-> out.result, imported |-> out.imported]
        /\ UNCHANGED <<pin_vars, peer_vars, db_lock, server_handle, cli, srv, ext_vars, aux_vars>>

----------------------------------------------------------------------------
(* The sync round: P2PManager::sync_with_peers *)

\* keys is the snapshot of the registry's keys the loop runs over, todo the
\* keys the loop has not reached yet, attempted the sessions of the round in
\* the order they were run, each with its result
IdleRound == [pc |-> "idle", keys |-> {}, todo |-> {}, attempted |-> <<>>, result |-> ""]

\* lines 457-459: the body of the loop after sync_with_peer has returned: an
\* error is logged and the loop goes on
RoundAfter(r, peer_id, result) ==
    [r EXCEPT !.attempted = Append(@, <<peer_id, result>>)]

\* line 456: sync_with_peers is called: the registry is locked and its keys
\* are collected.  The guard of the lock is a temporary of the head
\* expression of the for loop, so it is dropped when the loop ends, not when
\* the keys have been collected
sync_with_peers ==
    /\ round.pc \in {"idle", "done"}
    /\ cli.pc = "idle"
    /\ peers_lock = "free"
    /\ peers_lock' = "round"
    /\ round' = [IdleRound EXCEPT !.pc = "running", !.keys = DOMAIN peers,
                                  !.todo = DOMAIN peers]
    /\ UNCHANGED <<pin_vars, peer_vars, sync_vars, file_call, ext_vars_but_round>>
    /\ UNCHANGED <<backup, link>>

\* lines 456-461: the loop: sync_with_peer is called for the next key, in the
\* order of the HashMap, and waits for the registry lock (line 289); after it
\* has returned its result is logged; after the last key the loop ends, the
\* guard of the registry lock is dropped and sync_with_peers returns Ok
sync_with_peers_loop ==
    /\ round.pc = "running"
    /\ CASE cli.pc = "idle" /\ round.todo # {} ->
              /\ \E peer_id \in round.todo :
                    /\ cli' = [IdleClient EXCEPT !.pc = "lookup", !.peer_id = peer_id]
                    /\ round' = [round EXCEPT !.todo = @ \ {peer_id}]
              /\ UNCHANGED peers_lock
         [] cli.pc = "done" ->
              /\ round' = RoundAfter(round, cli.peer_id, cli.result)
              /\ cli' = IdleClient
              /\ UNCHANGED peers_lock
         [] cli.pc = "idle" /\ round.todo = {} ->
              /\ round' = [round EXCEPT !.pc = "done", !.result = "Ok"]
              /\ peers_lock' = "free"
              /\ UNCHANGED cli
         [] OTHER -> FALSE
    /\ UNCHANGED <<pin_vars, peer_vars, db, db_lock, server_handle, srv, file_call>>
    /\ UNCHANGED <<ext_vars_but_round, backup, link>>

----------------------------------------------------------------------------
(* Export and import: a changeset taken from a store and applied to a replica *)

\* a store: the students and observations tables and the sync_state table
Store(observations) ==
    [students |-> {KnownStudent}, observations |-> observations,
     sync_state |-> <<>>]

\* the store a node starts with: the rows local edits have left in it
InitialStore ==
    Store((55 :> [student_id |-> KnownStudent, text |-> "final"])
          @@ (1 :> [student_id |-> KnownStudent, text |-> "O1"]))

\* the number of observations create_observation adds
MaxLocalObs == 3

\* Database::create_observation: the row gets the next id of the table; the
\* foreign key on students is enforced
create_observation ==
    \E student_id \in {KnownStudent, UnknownStudent}, text \in {"t", "u"} :
        LET ids == DOMAIN db.observations
            next_id == IF ids = {} THEN 1
                       ELSE (CHOOSE k \in ids : \A j \in ids : j <= k) + 1
            out == InsertObservation(db, [valid |-> TRUE, id |-> next_id,
                                          student_id |-> student_id, text |-> text])
        IN
        /\ Cardinality(ids) < Cardinality(DOMAIN InitialStore.observations) + MaxLocalObs
        /\ db' = out.db
        /\ UNCHANGED <<pin_vars, peer_vars, db_lock, server_handle, cli, srv,
                       file_call, ext_vars, aux_vars>>

\* created_at of a row: rows are created in the order of their ids
CreatedAt(id) == id

\* Database::get_observations_since: the rows created at or after the
\* cutoff, the latest first
RECURSIVE RowsDescending(_, _)
RowsDescending(d, ids) ==
    IF ids = {} THEN <<>>
    ELSE LET k == CHOOSE i \in ids : \A j \in ids : j <= i IN
         <<[valid |-> TRUE, id |-> k, student_id |-> d.observations[k].student_id,
            text |-> d.observations[k].text]>>
         \o RowsDescending(d, ids \ {k})

get_observations_since(d, since) ==
    RowsDescending(d, {k \in DOMAIN d.observations : CreatedAt(k) >= since})

\* Database::create_changeset_file: the observations since the cutoff under
\* the checksum of their serialisation
create_changeset_file(d, since) ==
    [WellFormed EXCEPT !.observations = get_observations_since(d, since)]

\* a replica with the schema and no rows
EmptyReplica == [students |-> {}, observations |-> <<>>, sync_state |-> <<>>]

\* the cutoffs of create_changeset_file: before every row, and after row 1
Cutoffs == {0, 2}

NoReplica == [called |-> FALSE]

\* a changeset is exported from the store and applied to an empty replica:
\* get_pending_changesets and apply_changeset, or create_changeset_file and
\* apply_changeset_file
round_trip ==
    \E via \in {"changeset", "file"}, since \in Cutoffs :
        LET sent == get_pending_changesets(db, "replica", now)
            applied == apply_changeset(EmptyReplica, sent.bytes, device_id)
            imported == ApplyChangesetFile(EmptyReplica,
                                           create_changeset_file(db, since))
        IN
        /\ replica' = IF via = "changeset"
                       THEN [called |-> TRUE, via |-> via, since |-> 0,
                             source |-> db, result |-> applied.result,
                             store |-> applied.db]
                       ELSE [called |-> TRUE, via |-> via, since |-> since,
                             source |-> db, result |-> imported.result,
                             store |-> imported.db]
        /\ db' = sent.db
        /\ UNCHANGED <<pin_vars, peer_vars, db_lock, server_handle, cli, srv, file_call>>
        /\ UNCHANGED <<round, remote_pin_storage, mdns_daemon, daemons, aux_vars>>

----------------------------------------------------------------------------
(* Full backups: Database::import_full_backup *)

\* the number of entries of each array of a backup file
MaxBackupRows == 1

\* the ids a backup entry carries
BackupIds == 1..2

\* an entry of the "classes" array and one of the "students" array; complete
\* says that the entry has every field of the struct, so that from_value
\* accepts it
ClassEntries ==
    [id : BackupIds, name : {"5a", "5a_updated"}, complete : BOOLEAN]

StudentEntries ==
    [id : BackupIds, class_id : BackupIds,
     first_name : {"Max", "Max_Updated"}, complete : BOOLEAN]

ArraysUpTo(entries, n) == UNION {[1..k -> entries] : k \in 0..n}

BackupFiles ==
    [classes : ArraysUpTo(ClassEntries, MaxBackupRows),
     students : ArraysUpTo(StudentEntries, MaxBackupRows)]

\* the classes and students tables after create_class("5a") and
\* create_student(class.id, "Max")
InitialTables ==
    [classes |-> (1 :> [name |-> "5a"]),
     students |-> (1 :> [class_id |-> 1, first_name |-> "Max"])]

\* lines 650-672: one entry of the classes array: an entry from_value rejects
\* is skipped, a class is inserted when no class has its id, and nothing is
\* written otherwise
ImportClass(run, entry) ==
    IF ~entry.complete \/ entry.id \in DOMAIN run.classes
    THEN run
    ELSE [run EXCEPT !.classes = MapInsert(@, entry.id, [name |-> entry.name]),
                     !.imported_classes = @ + 1]

\* lines 680-704: one entry of the students array: the same, and the insert
\* of a student of a class that does not exist fails on the foreign key
ImportStudent(run, entry) ==
    IF ~entry.complete \/ entry.id \in DOMAIN run.students
    THEN run
    ELSE IF entry.class_id \notin DOMAIN run.classes
    THEN [run EXCEPT !.result = "FOREIGN KEY constraint failed"]
    ELSE [run EXCEPT !.students = MapInsert(@, entry.id,
                          [class_id |-> entry.class_id, first_name |-> entry.first_name]),
                     !.imported_students = @ + 1]

RECURSIVE ImportClasses(_, _)
ImportClasses(run, entries) ==
    IF entries = <<>>
    THEN run
    ELSE ImportClasses(ImportClass(run, Head(entries)), Tail(entries))

RECURSIVE ImportStudents(_, _)
ImportStudents(run, entries) ==
    IF entries = <<>> \/ run.result # "Ok"
    THEN run
    ELSE ImportStudents(ImportStudent(run, Head(entries)), Tail(entries))

\* Database::import_full_backup on the tables: classes first, then students
ImportFullBackup(tables, file) ==
    ImportStudents(
        ImportClasses([classes |-> tables.classes, students |-> tables.students,
                       imported_classes |-> 0, imported_students |-> 0,
                       result |-> "Ok"],
                      file.classes),
        file.students)

NoBackupCall ==
    [before |-> InitialTables, file |-> [classes |-> <<>>, students |-> <<>>],
     imported_classes |-> 0, imported_students |-> 0, result |-> "none"]

\* Database::import_full_backup, called with a backup file
import_full_backup ==
    \E file \in BackupFiles :
        LET out == ImportFullBackup(backup.tables, file) IN
        /\ backup' = [tables |-> [classes |-> out.classes, students |-> out.students],
                      call |-> [before |-> backup.tables, file |-> file,
                                imported_classes |-> out.imported_classes,
                                imported_students |-> out.imported_students,
                                result |-> out.result]]
        /\ UNCHANGED <<pin_vars, peer_vars, sync_vars, file_call, ext_vars>>
        /\ UNCHANGED <<peers_lock, link>>

----------------------------------------------------------------------------
(* Initial states and specifications *)

\* P2PManager::new
NodeInit ==
    /\ now = 0
    /\ pin_storage = <<>>
    /\ peers = <<>>
    /\ peer_certs = <<>>
    /\ last_call = NoCall
    /\ used_pins = {}
    /\ issued = <<>>
    /\ db_lock = Unlocked
    /\ server_handle = "none"
    /\ cli = IdleClient
    /\ file_call = NoFileCall
    /\ round = IdleRound
    /\ remote_pin_storage = <<>>
    /\ replica = NoReplica
    /\ mdns_daemon = "none"
    /\ daemons = 0
    /\ peers_lock = "free"
    /\ backup = [tables |-> InitialTables, call |-> NoBackupCall]

BaseInit ==
    /\ srv = [c \in Conns |-> FreeConn]
    /\ link = NoLink
    /\ NodeInit

PairingInit == BaseInit /\ db = Store(<<>>)

PairingNext ==
    \/ Tick
    \/ generate_pin
    \/ clear_pin
    \/ process_pairing_code

\* pairing: the PIN cache, the clock and process_pairing_code
SpecPairing == PairingInit /\ [][PairingNext]_vars

PinViewNext ==
    \/ Tick
    \/ generate_pin
    \/ clear_pin
    \/ get_current_pin

\* the PIN cache and its view: generate_pin, clear_pin and get_current_pin
SpecPinView == PairingInit /\ [][PinViewNext]_vars

TwoNodesNext ==
    \/ Tick
    \/ remote_generate_pin
    \/ process_pairing_code

\* pairing across two nodes: the remote node generates PINs, this node
\* processes them
SpecTwoNodes == PairingInit /\ [][TwoNodesNext]_vars

Init == BaseInit /\ db = InitialStore

RoundNext ==
    \/ add_peer_manually
    \/ service_resolved
    \/ sync_with_peers
    \/ sync_with_peers_loop
    \/ sync_with_peer_start
    \/ sync_with_peer_connect
    \/ sync_with_peer_handshake
    \/ sync_with_peer_lock
    \/ sync_with_peer_pending
    \/ sync_with_peer_write
    \/ sync_with_peer_read_len
    \/ sync_with_peer_read_payload
    \/ sync_with_peer_apply
    \/ sync_with_peer_return

\* sync rounds: the registry, sync_with_peers and sync_with_peer
SpecRound == Init /\ [][RoundNext]_vars

\* the steps of a round and of its sessions: the task that runs them is
\* polled as long as it can proceed
RoundStep ==
    \/ sync_with_peers_loop
    \/ sync_with_peer_start
    \/ sync_with_peer_connect
    \/ sync_with_peer_handshake
    \/ sync_with_peer_lock
    \/ sync_with_peer_pending
    \/ sync_with_peer_write
    \/ sync_with_peer_read_len
    \/ sync_with_peer_read_payload
    \/ sync_with_peer_apply

\* sync rounds whose task is scheduled fairly
SpecRoundFair == SpecRound /\ WF_vars(RoundStep)

Next ==
    \/ add_peer_manually
    \/ service_resolved
    \/ sync_with_peer_start
    \/ sync_with_peer_connect
    \/ sync_with_peer_handshake
    \/ sync_with_peer_lock
    \/ sync_with_peer_pending
    \/ sync_with_peer_write
    \/ sync_with_peer_read_len
    \/ sync_with_peer_read_payload
    \/ sync_with_peer_apply
    \/ sync_with_peer_return
    \/ start_server
    \/ stop_discovery
    \/ accept
    \/ handle_connection
    \/ connection_closed

\* synchronisation: the registry, the outbound session and the inbound sessions
Spec == Init /\ [][Next]_vars

FileNext == apply_changeset_file

RoundTripNext ==
    \/ create_observation
    \/ round_trip

\* export and import between a store and an empty replica
SpecRoundTrip == Init /\ [][RoundTripNext]_vars

ServerInit ==
    /\ srv = [c \in 1..MaxInbound |-> FreeConn]
    /\ link = NoLink
    /\ NodeInit
    /\ db = InitialStore

ServerNext ==
    \/ add_peer_manually
    \/ start_discovery
    \/ start_server
    \/ stop_discovery
    \/ accept
    \/ handle_connection
    \/ connection_closed

\* serving: discovery, the accept loop and concurrent inbound sessions
SpecServer == ServerInit /\ [][ServerNext]_vars

\* import of changeset files
SpecFile == Init /\ [][FileNext]_vars

BackupNext == import_full_backup

\* import of full backups
SpecBackup == Init /\ [][BackupNext]_vars

\* two nodes that run this program: the outbound session of one is served
\* by an inbound session of the other
LinkInit ==
    /\ srv = [c \in Conns |-> FreeConn]
    /\ link \in Conns
    /\ NodeInit
    /\ db = InitialStore

\* the statements of the two ends of a session.  The initiator's read of the
\* payload and its apply are not among them: no linked initiator gets past
\* the read of the length, because the responder returns at
\* peer_certificates() before it writes
SessionStep ==
    \/ sync_with_peer_connect
    \/ sync_with_peer_handshake
    \/ sync_with_peer_lock
    \/ sync_with_peer_pending
    \/ sync_with_peer_write
    \/ sync_with_peer_read_len
    \/ handle_connection

LinkNext ==
    \/ add_peer_manually
    \/ start_server
    \/ sync_with_peer_start
    \/ SessionStep
    \/ sync_with_peer_return
    \/ connection_closed

\* a session between two nodes, each end scheduled fairly: a task that can
\* take its next statement is polled
SpecLink ==
    /\ LinkInit /\ [][LinkNext]_vars
    /\ WF_vars(sync_with_peer_connect) /\ WF_vars(sync_with_peer_handshake)
    /\ WF_vars(sync_with_peer_lock) /\ WF_vars(sync_with_peer_pending)
    /\ WF_vars(sync_with_peer_write) /\ WF_vars(sync_with_peer_read_len)
    /\ WF_vars(handle_connection)

DiscoveryNext ==
    \/ Tick
    \/ start_discovery
    \/ stop_discovery
    \/ browse_event
    \/ add_peer_manually

\* discovery: the advertisement, the browse task and the registry
SpecDiscovery == Init /\ [][DiscoveryNext]_vars

----------------------------------------------------------------------------
(* Claims about pairing *)

\* C3: PIN single use.  A PIN that process_pairing_code has accepted is
\* removed from the cache in the same call, stays out of the cache until
\* generate_pin produces it again, and every call with it in between is
\* rejected with an invalid-or-expired-PIN error.
PinSingleUse ==
    /\ used_pins \cap DOMAIN pin_storage = {}
    /\ (last_call.op = "process_pairing_code" /\ IsPin(last_call.code)
            /\ last_call.result = "Ok")
        => (last_call.cached /\ last_call.code \notin DOMAIN pin_storage)
    /\ (last_call.op = "process_pairing_code" /\ last_call.reused)
        => last_call.result \in InvalidOrExpiredPin

\* a second attempt with a PIN that was accepted before
PinSecondAttempt ==
    /\ last_call.op = "process_pairing_code"
    /\ last_call.reused
    /\ last_call.address \in ValidAddresses

\* C4: PIN expiry.  generate_pin at t0 stores expires_at = t0 + 600 s; a call
\* of process_pairing_code with a cached PIN before t0 + 600 s is not rejected
\* as invalid or expired (and succeeds when the address parses); a call after
\* t0 + 600 s is rejected as invalid or expired, cached or evicted.
PinExpiry ==
    /\ last_call.op = "generate_pin"
        => /\ last_call.code \in DOMAIN pin_storage
           /\ pin_storage[last_call.code].expires_at = last_call.at + PinLifetime
    /\ (last_call.op = "process_pairing_code" /\ IsPin(last_call.code)
            /\ last_call.cached /\ last_call.at < last_call.issued_at + PinLifetime)
        => /\ last_call.result \notin InvalidOrExpiredPin
           /\ last_call.address \in ValidAddresses => last_call.result = "Ok"
    /\ (last_call.op = "process_pairing_code" /\ IsPin(last_call.code)
            /\ last_call.issued_at >= 0
            /\ last_call.at > last_call.issued_at + PinLifetime)
        => last_call.result \in InvalidOrExpiredPin

\* a PIN generated at t0 was accepted at t0 + 599 s
PinAcceptedBeforeExpiry ==
    /\ last_call.op = "process_pairing_code"
    /\ IsPin(last_call.code)
    /\ last_call.at = last_call.issued_at + PinLifetime - 1
    /\ last_call.result = "Ok"

\* a PIN generated at t0 and still in the cache was rejected at t0 + 601 s
PinRejectedAfterExpiry ==
    /\ last_call.op = "process_pairing_code"
    /\ IsPin(last_call.code)
    /\ last_call.cached
    /\ last_call.at = last_call.issued_at + PinLifetime + 1
    /\ last_call.result = "PIN has expired"

\* C22: get_current_pin returns the unexpired PIN of the cache that expires
\* first, with its remaining lifetime in seconds, and nothing exactly when
\* no PIN of the cache is unexpired
CurrentPinIsEarliest ==
    last_call.op = "get_current_pin" =>
        LET unexpired == Unexpired(pin_storage, last_call.at) IN
        IF unexpired = {}
        THEN last_call.result = "None"
        ELSE /\ last_call.result = "Some"
             /\ last_call.code \in unexpired
             /\ \A other \in unexpired :
                   pin_storage[last_call.code].expires_at
                       <= pin_storage[other].expires_at
             /\ last_call.expires_at = pin_storage[last_call.code].expires_at
             /\ last_call.expires_in_seconds
                    = pin_storage[last_call.code].expires_at - last_call.at

----------------------------------------------------------------------------
(* Claims about sessions *)

\* the outbound session has completed its TLS handshake
ClientHandshakeCompleted ==
    cli.presented # "none" /\ cli.result # "TLS handshake failed"

\* the outbound session has returned Ok after an exchange with its peer
ClientSessionSucceeded ==
    cli.pc = "done" /\ cli.result = "Ok" /\ cli.anchor # "none"

\* C1: certificate pinning on the client side.  The outbound session
\* completes its handshake, and writes or reads a frame, only when the
\* certificate the remote end presented is the certificate pinned for the
\* peer; with no certificate pinned there is no handshake.
ClientCertificatePinning ==
    /\ ClientHandshakeCompleted => cli.presented = cli.anchor
    /\ cli.io # <<>> => cli.presented = cli.anchor
    /\ cli.anchor = "none" => (cli.presented = "none" /\ cli.io = <<>>)

\* C2: mutual authentication on the server side.  A connection whose client
\* offers no certificate fails the TLS handshake, and no frame is read or
\* written on it.
ServerRequiresClientCertificate ==
    \A c \in DOMAIN srv :
        srv[c].offered = "none" /\ srv[c].pc \notin {"free", "handshake"}
        => /\ srv[c].result = "TLS handshake failed"
           /\ srv[c].io = <<>>

\* the rows a changeset carries, decoded from its bytes
RowsOfChangeset(bytes) ==
    { <<bytes[i], bytes[i + 1]>> : i \in {j \in 5..(Len(bytes) - 1) : j % 2 = 1} }

\* C5: convergence of one session.  After a complete session the local store
\* holds every row the remote end sent, and the changeset sent to the remote
\* end carries every row of the local store.
SessionConvergence ==
    ClientSessionSucceeded
    => /\ \A i \in DOMAIN cli.remote_edits :
            /\ cli.remote_edits[i][1] \in DOMAIN db.observations
            /\ db.observations[cli.remote_edits[i][1]].text = cli.remote_edits[i][2]
       /\ \A k \in DOMAIN db.observations :
            \/ \E i \in DOMAIN cli.remote_edits : cli.remote_edits[i][1] = k
            \/ <<ToString(k), db.observations[k].text>>
                   \in RowsOfChangeset(cli.our_changesets)

\* C6: last delivered wins.  After the incoming changeset of a session was
\* applied, every row of it whose key exists in the local store has the
\* incoming text there.
LastDeliveredWins ==
    ClientSessionSucceeded
    => \A i \in DOMAIN cli.remote_edits :
           cli.remote_edits[i][1] \in DOMAIN db.observations
           => db.observations[cli.remote_edits[i][1]].text = cli.remote_edits[i][2]

\* the reads and writes of an initiator: the frame written, then the frame read
InitiatorIo(io) ==
    /\ Len(io) <= 4
    /\ \A i \in DOMAIN io : io[i][1] = (IF i <= 2 THEN "write" ELSE "read")
    /\ Len(io) >= 2 => io[1][2] = ToLeBytes(Len(io[2][2]))
    /\ Len(io) >= 3 => Len(io[3][2]) = LenPrefixSize
    /\ Len(io) = 4 => Len(io[4][2]) = FromLeBytes(io[3][2])

\* the reads and writes of a responder: the frame read, then the frame written
ResponderIo(io) ==
    /\ Len(io) <= 4
    /\ \A i \in DOMAIN io : io[i][1] = (IF i <= 2 THEN "read" ELSE "write")
    /\ Len(io) >= 1 => Len(io[1][2]) = LenPrefixSize
    /\ Len(io) >= 2 => Len(io[2][2]) = FromLeBytes(io[1][2])
    /\ Len(io) = 4 => io[3][2] = ToLeBytes(Len(io[4][2]))

\* C8: frame order of a session.  Each side moves at most two frames, each a
\* u64 little-endian length followed by that many bytes: the initiator
\* writes its frame before it reads one, the responder reads one before it
\* writes its own, and a session that returns Ok has moved exactly two.
FrameOrder ==
    /\ InitiatorIo(cli.io)
    /\ ClientSessionSucceeded => Len(cli.io) = 4
    /\ \A c \in DOMAIN srv :
        /\ ResponderIo(srv[c].io)
        /\ (srv[c].pc = "done" /\ srv[c].result = "Ok") => Len(srv[c].io) = 4

\* an outbound session has written its frame, read the peer's and returned Ok
FrameExchangeComplete ==
    /\ ClientSessionSucceeded
    /\ Len(cli.io) = 4
    /\ cli.remote_edits # <<>>

\* C9: SyncState on success.  A session with peer p that returned Ok has
\* left a sync_state row of p with last_seq one more than before and
\* last_pull and last_push set to the current time.
SyncStateOnSuccess ==
    ClientSessionSucceeded
    => /\ cli.peer_id \in DOMAIN db.sync_state
       /\ db.sync_state[cli.peer_id].last_seq =
              (IF cli.peer_id \in DOMAIN cli.sync_before
               THEN cli.sync_before[cli.peer_id].last_seq ELSE 0) + 1
       /\ db.sync_state[cli.peer_id].last_pull = now
       /\ db.sync_state[cli.peer_id].last_push = now

StoreLockOnlyAtStoreOperation ==
    /\ db_lock = ClientHolder => cli.pc \in {"pending", "apply"}
    /\ \A c \in DOMAIN srv : db_lock = c => srv[c].pc \in {"pending", "apply"}
    /\ db_lock \in {Unlocked, ClientHolder} \cup DOMAIN srv

\* the outbound session writes its frame after its store operation, with the
\* lock free
FrameWrittenWithLockFree ==
    /\ cli.pc \in {"write_len", "write_payload", "read_len", "read_payload"}
    /\ cli.our_changesets # <<>>
    /\ db_lock = Unlocked

\* the session has read the whole frame its remote end built
FrameComplete(session) ==
    LET payload == ChangesetBytes(0, session.remote_edits) IN
    /\ session.len = Len(payload)
    /\ session.peer_changesets = payload

\* C27: apply only after a complete frame: a session is at apply_changeset
\* only with every byte its length prefix announced, and a session whose
\* stream ended early has returned an error without the payload and with the
\* store as it was
ApplyAfterCompleteFrame ==
    LET Applying(session) == session.pc \in {"lock_apply", "apply"} IN
    /\ Applying(cli) => FrameComplete(cli)
    /\ ClientSessionSucceeded => FrameComplete(cli)
    /\ cli.result = "early eof"
           => /\ cli.pc = "done"
              /\ cli.peer_changesets = <<>>
              /\ db = InitialStore
    /\ \A c \in DOMAIN srv :
          /\ Applying(srv[c]) => FrameComplete(srv[c])
          /\ srv[c].result = "early eof"
                 => srv[c].peer_changesets = <<>> /\ db = InitialStore

\* the stream ended after the length prefix and before the last byte of
\* the payload
StreamEndedInPayload ==
    /\ cli.result = "early eof"
    /\ Len(cli.io) = 3
    /\ cli.len > Len(cli.inbound)
    /\ cli.inbound # <<>>

----------------------------------------------------------------------------
(* Claims about changeset files *)

\* C7: atomic apply.  A call of apply_changeset_file that returns an error
\* leaves the store as it was before the call.
AtomicApply ==
    (file_call.called /\ file_call.result # "Ok") => db = file_call.before

----------------------------------------------------------------------------
(* Claims about sync rounds *)

\* C11: per-peer failure isolation.  A round of sync_with_peers runs one
\* session for every key of the registry it started with, whatever the
\* results of the other sessions, and returns Ok.
RoundFailureIsolation ==
    /\ [](round.pc = "done"
            => /\ round.result = "Ok"
               /\ {round.attempted[i][1] : i \in DOMAIN round.attempted} = round.keys
               /\ Len(round.attempted) = Cardinality(round.keys))
    /\ (round.pc = "running") ~> (round.pc = "done")

\* C26: the registry lock is held only for a lookup, an insert or a remove:
\* it is free whenever a session has been called, and so the lock
\* sync_with_peers takes to list the peers is released before its first
\* session starts
RegistryLockOnlyForMapOperations ==
    peers_lock = "free" \/ cli.pc = "idle"

\* C28: a sync round terminates: as long as it has not returned, the round
\* or its current session can take its next step; it never waits for a lock
\* its own call holds
RoundCanProceed ==
    round.pc = "running" => ENABLED RoundStep

\* C12: session eligibility.  The outbound session opens a connection (and
\* so shakes hands or moves a frame) only for a peer with a certificate in
\* the credential store; for a peer that is only discovered it ends before
\* it connects.
SyncOnlyWithPaired ==
    /\ cli.anchor # "none"
        => (cli.peer_id \in DOMAIN peers /\ cli.peer_id \in DOMAIN peer_certs)
    /\ (cli.pc # "idle" /\ cli.peer_id \notin DOMAIN peer_certs)
        => /\ cli.pc = "done"
           /\ cli.presented = "none"
           /\ cli.io = <<>>
           /\ cli.result # "Failed to connect to peer"

\* sync_with_peer was called for a peer that is only discovered
DiscoveredPeerNotSynced ==
    /\ cli.pc = "done"
    /\ cli.peer_id \in DOMAIN peers
    /\ cli.peer_id \notin DOMAIN peer_certs
    /\ peers[cli.peer_id].certificate = <<>>
    /\ cli.result = "Invalid root certificate"

----------------------------------------------------------------------------
(* Claims about pairing across nodes *)

\* C13: PIN pairing across two nodes.  A PIN the remote node generated and
\* that has not expired, entered into process_pairing_code on this node with
\* an address that parses, succeeds, and the registry then holds a record
\* keyed by the remote device id with the remote certificate and the address.
CrossNodePinPairing ==
    (/\ last_call.op = "process_pairing_code"
     /\ last_call.code \in DOMAIN remote_pin_storage
     /\ ~PinExpired(remote_pin_storage[last_call.code], last_call.at)
     /\ last_call.address \in ValidAddresses)
    => /\ last_call.result = "Ok"
       /\ RemoteDevice \in DOMAIN peers
       /\ peers[RemoteDevice].certificate = Pem("cert-B")
       /\ peers[RemoteDevice].address = last_call.address
       /\ RemoteDevice \in DOMAIN peer_certs

\* C14: failed pairing has no side effects.  Every call of
\* process_pairing_code that returns an error leaves the registry, the
\* credential store and the PIN cache as they were before the call.
FailedPairingNoEffect ==
    [][(last_call'.op = "process_pairing_code" /\ last_call'.result # "Ok")
       => UNCHANGED <<peers, peer_certs, pin_storage>>]_vars

\* a call with a cached PIN was rejected for its address after the pairing
\* code had been decoded
PairingFailedAtAddress ==
    /\ last_call.op = "process_pairing_code"
    /\ IsPin(last_call.code)
    /\ last_call.cached
    /\ last_call.result = "Invalid peer address"

----------------------------------------------------------------------------
(* Claims about serving *)

ConcurrentDisjointSessions ==
    \A c1, c2 \in DOMAIN srv :
        (/\ c1 # c2
         /\ srv[c1].pc = "done" /\ srv[c1].result # "TLS handshake failed"
         /\ srv[c2].pc = "done" /\ srv[c2].result # "TLS handshake failed")
        => \A c \in {c1, c2} :
               /\ srv[c].result = "Ok"
               /\ \A i \in DOMAIN srv[c].remote_edits :
                      /\ srv[c].remote_edits[i][1] \in DOMAIN db.observations
                      /\ db.observations[srv[c].remote_edits[i][1]].text
                             = srv[c].remote_edits[i][2]

\* C18: inbound error isolation.  A step that ends the session of one
\* connection with an error leaves the accept loop running and the sessions
\* of the other connections as they are.
InboundErrorIsolation ==
    [][\A c \in DOMAIN srv :
          (srv[c].pc \notin {"free", "done"} /\ srv'[c].pc = "done"
              /\ srv'[c].result # "Ok")
          => /\ server_handle' = server_handle
             /\ \A c2 \in DOMAIN srv \ {c} : srv'[c2] = srv[c2]]_vars

\* one session has ended with an error while the accept loop runs and
\* another session is under way
SessionFailedBesideAnother ==
    \E c1, c2 \in DOMAIN srv :
        /\ c1 # c2
        /\ srv[c1].pc = "done" /\ srv[c1].result # "Ok"
        /\ srv[c2].pc = "peer_cert"
        /\ server_handle = "running"

\* C19: stop does not cancel running sessions.  The step that stops the
\* accept loop leaves every session as it is, and while the loop is stopped
\* no connection is accepted.
StopKeepsSessions ==
    [][/\ (server_handle = "running" /\ server_handle' = "none") => srv' = srv
       /\ (server_handle = "none" /\ server_handle' = "none")
            => \A c \in DOMAIN srv : srv[c].pc = "free" => srv'[c].pc = "free"]_vars

\* a session accepted before the stop is under way after it
SessionInFlightAfterStop ==
    \E c \in DOMAIN srv :
        /\ server_handle = "none"
        /\ srv[c].pc = "peer_cert"

\* C20: start and stop are idempotent.  A start of discovery while a daemon
\* is held, a start of the server while the accept loop runs, and a stop
\* while nothing is held leave the daemons, the handles and the accept loop
\* as they are.
StartStopIdempotent ==
    [][/\ (start_discovery /\ mdns_daemon = "some")
            => UNCHANGED <<mdns_daemon, daemons, server_handle>>
       /\ (start_server /\ server_handle = "running")
            => UNCHANGED <<mdns_daemon, daemons, server_handle>>
       /\ (stop_discovery /\ mdns_daemon = "none" /\ server_handle = "none")
            => UNCHANGED <<mdns_daemon, daemons, server_handle>>]_vars

----------------------------------------------------------------------------
(* Claims about export and import *)

\* C16: changeset round trip.  The changeset exported from a store, applied
\* to an empty replica, is applied without an error and leaves the replica
\* with the observations of the store.
ChangesetRoundTrip ==
    (replica.called /\ replica.since = 0)
    => /\ replica.result = "Ok"
       /\ replica.store.observations = replica.source.observations

----------------------------------------------------------------------------
(* Claims about full backups *)

\* C23: import_full_backup resolves id conflicts by updating: after an import
\* that returned success, a class or a student of the backup whose id existed
\* before carries the backup's values
ImportUpdatesConflicts ==
    LET call == backup.call IN
    call.result = "Ok" =>
        /\ \A i \in DOMAIN call.file.classes :
              LET entry == call.file.classes[i] IN
              entry.id \in DOMAIN call.before.classes
                  => backup.tables.classes[entry.id].name = entry.name
        /\ \A i \in DOMAIN call.file.students :
              LET entry == call.file.students[i] IN
              entry.id \in DOMAIN call.before.students
                  => backup.tables.students[entry.id].first_name = entry.first_name

----------------------------------------------------------------------------
(* Claims about discovery *)

\* C21: self-advertisements are filtered: the registry never holds an entry
\* under the instance name this node advertises
SelfAdvertisementFiltered ==
    InstanceLabel(device_id) \notin DOMAIN peers

\* C30: discovery never revokes trust: a record with a certificate is never
\* replaced by a record without one
DiscoveryKeepsTrust ==
    [][\A k \in DOMAIN peers :
          peers[k].certificate # <<>>
              => k \in DOMAIN peers' /\ peers'[k].certificate # <<>>]_vars

----------------------------------------------------------------------------
(* Claims about the two ends of a session *)

\* C29: a session between an initiator and a responder cannot deadlock: under
\* fair scheduling the outbound session that has connected returns and the
\* inbound session that serves it ends; and when the responder has ended
\* after the handshake without writing, the initiator's read has ended with
\* an error
SessionEndsOnBothSides ==
    /\ (cli.pc \notin {"idle", "lookup", "done"}) ~> (cli.pc = "done")
    /\ \A c \in Conns :
          (srv[c].pc \notin {"free", "done"}) ~> (srv[c].pc \in {"free", "done"})
    /\ [](\A c \in Conns :
            (/\ c = link
             /\ cli.pc = "done"
             /\ Len(cli.io) >= 2
             /\ srv[c].pc = "done" /\ srv[c].result # "Ok")
                => cli.result = "early eof")

\* the responder has ended after the handshake, and the initiator, which
\* had written its frame, has returned from its read with an error
ReadEndedAfterResponderAbort ==
    /\ link # NoLink
    /\ cli.pc = "done"
    /\ cli.result = "early eof"
    /\ Len(cli.io) = 2
    /\ srv[link].pc = "done"
    /\ srv[link].peer_cert = "none"
    /\ srv[link].result = "Failed to get peer certificate"

============================================================================
